---- MODULE Spec2Model ----
(***************************************************************************)
(* Model of the reconciliation engine and the ingestion workflows of       *)
(* spofify_integration/services.py (class SpotifyService) over the tables  *)
(* of spofify_integration/models.py.                                       *)
(*                                                                         *)
(* The thread of control of a request is single and synchronous, so one    *)
(* workflow call is one action.  Inside an action the code is followed     *)
(* statement by statement on a call state `st` (the four tables, the       *)
(* pending exception and the log of what the call has done so far).  Two   *)
(* requests served at the same time are modelled apart, one action per     *)
(* database access (SpecRace).                                             *)
(***************************************************************************)
EXTENDS Integers, Sequences, FiniteSets, TLC

VARIABLES genres, artists, albums, songs, sel, last, calls

tables == <<genres, artists, albums, songs>>
vars == <<genres, artists, albums, songs, sel, last, calls>>

(***************************************************************************)
(* Program constants.                                                      *)
(***************************************************************************)
SearchLimit == 10
AlbumLimit == 20
DateLen == 10
MinPopularity == 0
MaxPopularity == 100

\* bound of the model: the longest albums-by-artist listing a catalog holds
MaxListing == 2
\* the rows the get-or-create layer is explored with
MaxRows == 3

(***************************************************************************)
(* Strings.  str.lower() on the names the model uses.                      *)
(***************************************************************************)
Lower(s) ==
  CASE s = "A" -> "a"
    [] s = "B" -> "b"
    [] s = "X" -> "x"
    [] s = "Y" -> "y"
    [] s = "T" -> "t"
    [] s = "U" -> "u"
    [] OTHER -> s

IExact(s, t) == Lower(s) = Lower(t)

Min(S) == CHOOSE x \in S : \A y \in S : x <= y
Max(S) == CHOOSE x \in S : \A y \in S : x >= y

(***************************************************************************)
(* DateField: the values models.DateField accepts from a string.           *)
(***************************************************************************)
Years == {"1969", "1970"}
Months == {"01", "08"}
Days == {"01", "15"}
ValidDates == {y \o "-" \o m \o "-" \o d : y \in Years, m \in Months, d \in Days}
ValidDate(d) == d \in ValidDates

(***************************************************************************)
(* The call state.                                                         *)
(***************************************************************************)
Ev(e, k, n) == [ev |-> e, kind |-> k, name |-> n]

Log(st, e) == [st EXCEPT !.log = Append(@, e)]

Raise(st, e) == IF st.exc = "none" THEN [st EXCEPT !.exc = e] ELSE st

Ok(st) == st.exc = "none"

ArtistKey(r) == <<r.name, r.artist_id>>
AlbumKey(r) == <<r.name, r.album_id>>

\* the pk of a row is a random UUID: among rows whose names are equal
\* case-insensitively a new row sorts before all of them or after all of them
\* the call drew a choice it cannot control
Drawn(st, b) == [st EXCEPT !.drawn = @ \/ b]

NewRank(st, siblings) ==
  IF siblings = {} THEN 0
  ELSE IF st.low THEN Min({r.rank : r \in siblings}) - 1
       ELSE Max({r.rank : r \in siblings}) + 1

\* QuerySet.first() of an unordered queryset: the least pk
First(rows) == CHOOSE r \in rows : \A o \in rows : r.rank <= o.rank

(***************************************************************************)
(* The catalog client.                                                     *)
(***************************************************************************)
Truncate(items, n) == IF Len(items) > n THEN SubSeq(items, 1, n) ELSE items

Response(c, endpoint, table, key, limit) ==
  IF endpoint \in c.down THEN [err |-> TRUE, items |-> <<>>]
  ELSE IF key \in DOMAIN table THEN [err |-> FALSE, items |-> Truncate(table[key], limit)]
  ELSE [err |-> FALSE, items |-> <<>>]

ClientSearchArtist(c, q) == Response(c, "artist", c.ar, q, SearchLimit)

\* q = f"{artist} {album_name}" and f"{artist} {track_name}": the catalogs of the
\* model answer by the album or track name of the query
ClientSearchAlbum(c, artist, album_name) == Response(c, "album", c.al, album_name, SearchLimit)
ClientSearchTrack(c, artist, track_name) == Response(c, "track", c.tr, track_name, SearchLimit)
ClientArtistAlbums(c, artist_id) == Response(c, "artist_albums", c.aa, artist_id, AlbumLimit)
\* album_tracks is called without a limit
ClientAlbumTracks(c, album_id) ==
  IF "album_tracks" \in c.down THEN [err |-> TRUE, items |-> <<>>]
  ELSE IF album_id \in DOMAIN c.at THEN [err |-> FALSE, items |-> c.at[album_id]]
  ELSE [err |-> FALSE, items |-> <<>>]

\* index of the first candidate whose name equals the query case-insensitively, 0 if none
\* the last candidate of the name instead of the first
RECURSIVE LastMatchFrom(_, _, _)
LastMatchFrom(items, name, i) ==
  IF i = 0 THEN 0
  ELSE IF Lower(name) = Lower(items[i].name) THEN i
  ELSE LastMatchFrom(items, name, i - 1)

FirstMatch_last(items, name) == LastMatchFrom(items, name, Len(items))

\* the loop takes the first candidate, whatever its name
FirstMatchFrom_any(items, name, i) == IF i > Len(items) THEN 0 ELSE i

RECURSIVE FirstMatchFrom(_, _, _)
FirstMatchFrom(items, name, i) ==
  IF i > Len(items) THEN 0
  ELSE IF Lower(name) = Lower(items[i].name) THEN i
  ELSE FirstMatchFrom(items, name, i + 1)

FirstMatch(items, name) == FirstMatchFrom(items, name, 1)

(***************************************************************************)
(* The reconciliation engine.                                              *)
(***************************************************************************)
get_or_create_genres(st, name) ==
  IF name \in st.genres THEN st
  ELSE Log([st EXCEPT !.genres = @ \cup {name}], Ev("create", "Genre", name))

get_or_create_artist(st, name, artist_id, gs) ==
  IF \E r \in st.artists : r.name = name /\ r.artist_id = artist_id THEN st
  ELSE LET siblings == {r \in st.artists : IExact(r.name, name)}
           row == [name |-> name, artist_id |-> artist_id, genres |-> gs,
                   rank |-> NewRank(st, siblings)]
       IN Log(Drawn([st EXCEPT !.artists = @ \cup {row}], siblings # {}),
              Ev("create", "Artist", name))

\* object_handling: the call state after filter(...).exists(); the caller takes
\* First(matches) as the object when nothing was raised
object_handling(st, matches) ==
  IF matches # {} THEN st ELSE Raise(st, "DoesNotExist")

ArtistsIExact(st, name) == {r \in st.artists : IExact(r.name, name)}
AlbumsIExact(st, name) == {r \in st.albums : IExact(r.name, name)}

\* the padding without the length test
NormDate_unconditional(release_date) == release_date \o "-01-01"

\* release_date + "-01-01" unless the date has the length of a full date
NormDate(release_date) ==
  IF Len(release_date) # DateLen THEN release_date \o "-01-01" ELSE release_date

\* the fallback writes the artists of the call over those of the stored Albums of the name
AlbumFallback_overwrite(st, name, as) ==
  [st EXCEPT !.albums = {IF IExact(o.name, name) THEN [o EXCEPT !.artists = as] ELSE o :
                           o \in st.albums}]

\* object_handling(Album, {"name__iexact": name, "artists": artists}) with artists a
\* set of Artist objects: the related exact lookup prepares its right-hand side with
\* UUIDField.get_prep_value, which rejects a set
AlbumFallback(st, name, as) == Raise(st, "ValidationError: not a valid UUID")

get_or_create_album(st, name, release_date, album_type, as, album_id) ==
  LET d == NormDate(release_date)
      st0 == Log(Log(st, Ev("release_date", "Album", release_date)), Ev("upsert", "Album", d))
  IN IF ~ValidDate(d) THEN Raise(st0, "ValidationError: invalid date")
     ELSE IF \E r \in st.albums : /\ r.name = name
                                  /\ r.release_date = d
                                  /\ r.album_type = album_type
                                  /\ r.album_id = album_id
          THEN st0
     ELSE IF \E r \in st.albums : r.name = name /\ r.album_id = album_id
          THEN AlbumFallback(st0, name, as)
     ELSE LET row == [name |-> name, release_date |-> d, album_type |-> album_type,
                      album_id |-> album_id, artists |-> as,
                      rank |-> NewRank(st, AlbumsIExact(st, name))]
          IN Log(Drawn([st0 EXCEPT !.albums = @ \cup {row}], AlbumsIExact(st, name) # {}),
                 Ev("create", "Album", name))

SongFallback(st, name, album) ==
  object_handling(st, {s \in st.songs : IExact(s.name, name) /\ s.album = album})

get_or_create_song(st, name, album, release_date, popularity, as) ==
  LET d == NormDate(release_date)
      st0 == Log(Log(st, Ev("release_date", "Song", release_date)), Ev("upsert", "Song", d))
  IN IF ~ValidDate(d) THEN Raise(st0, "ValidationError: invalid date")
     ELSE IF \E s \in st.songs : /\ s.name = name
                                 /\ s.album = album
                                 /\ s.release_date = d
                                 /\ s.popularity = popularity
          THEN st0
     ELSE IF \E s \in st.songs : s.name = name /\ s.release_date = d
          THEN SongFallback(st0, name, album)
     ELSE LET siblings == {s \in st.songs : IExact(s.name, name)}
              row == [name |-> name, release_date |-> d, popularity |-> popularity,
                      album |-> album, artists |-> as, rank |-> NewRank(st, siblings)]
          IN Log(Drawn([st0 EXCEPT !.songs = @ \cup {row}], siblings # {}),
                 Ev("create", "Song", name))

\* every genre name of the candidate is taken
GenreWanted_all(g) == TRUE

\* if genre and genre != "-"
GenreWanted(g) == g # "" /\ g # "-"

RECURSIVE ResolveGenres(_, _, _)
ResolveGenres(st, gnames, i) ==
  IF i > Len(gnames) THEN st
  ELSE IF GenreWanted(gnames[i])
       THEN ResolveGenres(get_or_create_genres(st, gnames[i]), gnames, i + 1)
       ELSE ResolveGenres(st, gnames, i + 1)

Genres(a) == {a.genres[j] : j \in {k \in 1..Len(a.genres) : GenreWanted(a.genres[k])}}

\* the upsert with the Artist created before its Genres
UpsertArtist_artist_first(st, a) ==
  ResolveGenres(get_or_create_artist(st, a.name, a.id, Genres(a)), a.genres, 1)

\* the body of the candidate loop of search_artist for a matching candidate
UpsertArtist(st, a) ==
  get_or_create_artist(ResolveGenres(st, a.genres, 1), a.name, a.id, Genres(a))

\* the candidate loop without the return that ends it at the first match
RECURSIVE ArtistLoop_no_return(_, _, _, _)
ArtistLoop_no_return(st, items, artist, i) ==
  IF i > Len(items) THEN st
  ELSE IF Lower(artist) # Lower(items[i].name)
       THEN ArtistLoop_no_return(st, items, artist, i + 1)
       ELSE ArtistLoop_no_return(UpsertArtist(st, items[i]), items, artist, i + 1)

\* the candidate loop of search_artist, from candidate i on
RECURSIVE ArtistLoop(_, _, _, _)
ArtistLoop(st, items, artist, i) ==
  IF i > Len(items) THEN st
  ELSE IF Lower(artist) # Lower(items[i].name) THEN ArtistLoop(st, items, artist, i + 1)
  ELSE UpsertArtist(st, items[i])

\* the search made outside a try: the exception of the client leaves the call
ArtistResults_raise(st, resp, artist) ==
  IF resp.err THEN Raise(st, "SpotifyException")
  ELSE IF resp.items = <<>> THEN st ELSE ArtistLoop(st, resp.items, artist, 1)

\* except SpotifyException / except Exception: return; if not results or not items: return
ArtistResults(st, resp, artist) ==
  IF resp.err \/ resp.items = <<>> THEN st ELSE ArtistLoop(st, resp.items, artist, 1)

search_artist(st, c, artist) ==
  IF ~Ok(st) THEN st
  ELSE IF \E r \in st.artists : r.name = artist THEN st
  ELSE ArtistResults(Log(st, Ev("call", "artist", artist)), ClientSearchArtist(c, artist),
                     artist)

\* for x in names: search_artist(x["name"]); acc.add(object_handling(Artist, name__iexact))
RECURSIVE ResolveArtists(_, _, _, _, _)
RECURSIVE ResolveFound(_, _, _, _, _)
ResolveFound(s1, c, names, i, acc) ==
  LET ms == ArtistsIExact(s1, names[i])
  IN IF ~Ok(object_handling(s1, ms)) THEN [st |-> object_handling(s1, ms), acc |-> acc]
     ELSE ResolveArtists(s1, c, names, i + 1, acc \cup {ArtistKey(First(ms))})

ResolveArtists(st, c, names, i, acc) ==
  IF i > Len(names) \/ ~Ok(st) THEN [st |-> st, acc |-> acc]
  ELSE ResolveFound(search_artist(st, c, names[i]), c, names, i, acc)

\* the upsert of the matching album candidate, its artists resolved
AlbumOf(ra, album) ==
  IF ~Ok(ra.st) THEN ra.st
  ELSE get_or_create_album(ra.st, album.name, album.release_date, album.album_type,
                           ra.acc, album.id)

AlbumResults(st, c, resp, album_name) ==
  LET i == FirstMatch(resp.items, album_name)
  IN IF resp.err \/ resp.items = <<>> \/ i = 0 THEN st
     ELSE AlbumOf(ResolveArtists(st, c, resp.items[i].artists, 1, {}), resp.items[i])

search_artist_and_album(st, c, artist, album_name) ==
  IF ~Ok(st) THEN st
  ELSE IF \E r \in st.albums : r.name = album_name THEN st
  ELSE AlbumResults(Log(st, Ev("call", "album", artist \o " " \o album_name)), c,
                    ClientSearchAlbum(c, artist, album_name), album_name)

\* for a_artist in track["album"]["artists"]: search_artist(a_artist["name"])
RECURSIVE SearchEach(_, _, _, _)
SearchEach(st, c, names, i) ==
  IF i > Len(names) THEN st
  ELSE SearchEach(search_artist(st, c, names[i]), c, names, i + 1)

LastName(names) == IF names = <<>> THEN "" ELSE names[Len(names)]

\* object_handling(Album, name__iexact) and get_or_create_song
SongOnAlbum(st, track, as) ==
  LET ms == AlbumsIExact(st, track.album.name)
  IN IF ~Ok(object_handling(st, ms)) THEN object_handling(st, ms)
     ELSE get_or_create_song(st, track.name, AlbumKey(First(ms)),
                             track.album.release_date, track.popularity, as)

\* search_artist_and_album for the track's album, the track artists resolved
SongOf(ra, c, track) ==
  SongOnAlbum(search_artist_and_album(ra.st, c, LastName(track.album.artists),
                                      track.album.name),
              track, ra.acc)

\* the body of the candidate loop of search_artist_and_song for the matching track
TrackOfResults(st, c, track) ==
  SongOf(ResolveArtists(SearchEach(st, c, track.album.artists, 1), c, track.artists, 1, {}),
         c, track)

TrackResults(st, c, resp, track_name) ==
  LET i == FirstMatch(resp.items, track_name)
  IN IF resp.err \/ resp.items = <<>> \/ i = 0 THEN st
     ELSE TrackOfResults(st, c, resp.items[i])

search_artist_and_song(st, c, artist, track_name) ==
  IF ~Ok(st) THEN st
  ELSE IF \E s \in st.songs : s.name = track_name THEN st
  ELSE TrackResults(Log(st, Ev("call", "track", artist \o " " \o track_name)), c,
                    ClientSearchTrack(c, artist, track_name), track_name)

\* object_handling(Artist, name__iexact) and search_artist_and_album for one album artist
AlbumArtistFound(s1, c, name, album_name) ==
  search_artist_and_album(object_handling(s1, ArtistsIExact(s1, name)), c, name, album_name)

\* the inner loop of search_all_albums_by_artist over album["artists"]
RECURSIVE AlbumArtistsLoop(_, _, _, _, _)
AlbumArtistsLoop(st, c, names, album_name, j) ==
  IF j > Len(names) \/ ~Ok(st) THEN st
  ELSE AlbumArtistsLoop(AlbumArtistFound(search_artist(st, c, names[j]), c, names[j],
                                         album_name),
                        c, names, album_name, j + 1)

RECURSIVE AlbumsLoop(_, _, _, _)
AlbumsLoop(st, c, items, i) ==
  IF i > Len(items) \/ ~Ok(st) THEN st
  ELSE AlbumsLoop(AlbumArtistsLoop(st, c, items[i].artists, items[i].name, 1),
                  c, items, i + 1)

\* main_artist found: artist_albums and the loops
AlbumsOfArtist(st, c, main_artist) ==
  LET resp == ClientArtistAlbums(c, main_artist.artist_id)
      s3 == Log(st, Ev("call", "artist_albums", main_artist.artist_id))
  IN IF resp.err \/ resp.items = <<>> THEN s3
     ELSE AlbumsLoop(s3, c, resp.items, 1)

MainArtist(s1, c, artist) ==
  LET ms == ArtistsIExact(s1, artist)
  IN IF ~Ok(object_handling(s1, ms)) THEN object_handling(s1, ms)
     ELSE AlbumsOfArtist(s1, c, First(ms))

search_all_albums_by_artist(st, c, artist) ==
  MainArtist(search_artist(st, c, artist), c, artist)

\* an unordered queryset as the list the iteration sees
RECURSIVE SeqOf(_)
SeqOf(S) ==
  IF S = {} THEN <<>>
  ELSE LET x == CHOOSE y \in S : TRUE IN <<x>> \o SeqOf(S \ {x})

Reverse(s) == [i \in 1..Len(s) |-> s[Len(s) + 1 - i]]

AllOf(st, S) == IF st.rev THEN Reverse(SeqOf(S)) ELSE SeqOf(S)

RECURSIVE SongsLoop(_, _, _, _, _)
SongsLoop(st, c, artist, items, i) ==
  IF i > Len(items) \/ ~Ok(st) THEN st
  ELSE SongsLoop(search_artist_and_song(ResolveArtists(st, c, items[i].artists, 1, {}).st,
                                        c, artist, items[i].name),
                 c, artist, items, i + 1)

\* the loop over a.albums.all(); an empty or failed track listing returns from the workflow
RECURSIVE AlbumTracksLoop(_, _, _, _, _)
AlbumTracksLoop(st, c, artist, all_albums, i) ==
  IF i > Len(all_albums) \/ ~Ok(st) THEN st
  ELSE LET resp == ClientAlbumTracks(c, all_albums[i].album_id)
           s1 == Log(st, Ev("call", "album_tracks", all_albums[i].album_id))
       IN IF resp.err \/ resp.items = <<>> THEN s1
          ELSE AlbumTracksLoop(SongsLoop(s1, c, artist, resp.items, 1),
                               c, artist, all_albums, i + 1)

\* a.albums of the Artist the second object_handling returns
AlbumsOf(st, a) == {r \in st.albums : ArtistKey(a) \in r.artists}

SongsOfArtist(s1, c, artist) ==
  LET ms == ArtistsIExact(s1, artist)
      all_albums == AlbumsOf(s1, First(ms))
  IN IF ~Ok(object_handling(s1, ms)) THEN object_handling(s1, ms)
     ELSE AlbumTracksLoop(Drawn(s1, Cardinality(all_albums) > 1), c, artist,
                          AllOf(s1, all_albums), 1)

search_all_songs_by_artist(st, c, artist) ==
  SongsOfArtist(search_all_albums_by_artist(st, c, artist), c, artist)

(***************************************************************************)
(* Catalogs: what the client answers, fixed for a behaviour.  ar, al and   *)
(* tr are the search results by queried artist, album and track name; aa   *)
(* the album listing by artist id, at the track listing by album id; down  *)
(* the endpoints that raise.                                               *)
(***************************************************************************)
ArtistNames == {"a", "A", "b"}
TrackNames == {"t", "u"}
\* the artist names fetch_track is called with
TrackArtists == {"a", "b"}

ACand(n, i, g) == [name |-> n, id |-> i, genres |-> g]
AlCand(n, i, ty, d, as) ==
  [name |-> n, id |-> i, album_type |-> ty, release_date |-> d, artists |-> as]
TrCand(n, p, aln, d, alas, as) ==
  [name |-> n, popularity |-> p,
   album |-> [name |-> aln, release_date |-> d, artists |-> alas], artists |-> as]
Item(n, as) == [name |-> n, artists |-> as]

ca == ACand("a", "i1", <<"rock", "-", "", "pop">>)
cA == ACand("A", "i1", <<"rock">>)
cb == ACand("b", "i2", <<>>)
cab == ACand("ab", "i3", <<"pop">>)

Ar(s) ==
  [q \in ArtistNames |->
     CASE q = "a" -> IF s.a = "none" THEN <<>> ELSE <<cab, ca, cA>>
       [] q = "A" -> <<cA>>
       [] OTHER -> <<cb>>]

cx == AlCand("x", "k1", "album", "1969", <<"a">>)
\* a candidate whose name contains the queried name "x" and is not equal to it
cxy == AlCand("xy", "k3", "album", "1969", <<"a">>)
cx2 == AlCand("x", "k1", "single", "1969-08-15", <<"b">>)
cy == AlCand("y", "k2", "album", "1969-08", <<"b">>)
cy2 == AlCand("y", "k2", "single", "1970", <<"a">>)

Al(s) ==
  [q \in {"x", "X", "y"} |->
     CASE q = "x" -> IF s.x = "none" THEN <<cxy>> ELSE <<cxy, cx, cx2>>
       [] q = "X" -> <<cx2>>
       [] OTHER -> IF s.y = "month" THEN <<cy>> ELSE <<cy2>>]

ct == TrCand("t", 100, "x", "1969", <<"a">>, <<"a">>)
\* a candidate whose name contains the queried name "t" and is not equal to it
ctu == TrCand("tu", 50, "x", "1969", <<"a">>, <<"a">>)
ct2 == TrCand("t", 101, "y", "1970", <<"a", "b">>, <<"a", "b">>)
cu == TrCand("u", -1, "y", "1969-08-15", <<"b">>, <<"b">>)
cu2 == TrCand("U", 0, "X", "1970-01-01", <<>>, <<>>)

Tr(s) ==
  [q \in TrackNames |->
     CASE q = "t" -> IF s.t = "none" THEN <<>> ELSE IF s.t = "x" THEN <<ctu, ct, ct2>> ELSE <<ct2>>
       [] OTHER -> IF s.u = "u" THEN <<cu>> ELSE <<cu2>>]

AlbumItems == <<Item("x", <<"a">>), Item("y", <<"a">>), Item("X", <<"a">>)>>

\* a listing longer than one page of artist_albums: AlbumLimit albums the album
\* search knows nothing of, then album "x"
Fillers == [i \in 1..AlbumLimit |-> Item("f" \o ToString(i), <<"a">>)]
LongListing == Fillers \o <<Item("x", <<"a">>)>>

\* the albums-by-artist listing of artist i1: the first s.n of AlbumItems, or the
\* long listing
Aa(s) ==
  [i \in {"i1", "i2"} |->
     CASE i = "i1" -> IF s.long THEN LongListing ELSE SubSeq(AlbumItems, 1, s.n)
       [] OTHER -> <<Item("y", <<"b">>)>>]

At(s) ==
  [k \in {"k1", "k2"} |->
     CASE k = "k1" -> <<Item("t", <<"a">>)>>
       [] OTHER -> IF s.k2 = "none" THEN <<>> ELSE <<Item("u", <<"b">>)>>]

Endpoints == {"artist", "album", "track", "artist_albums", "album_tracks"}

\* the answers the catalog can be chosen to give: every endpoint answers, and no
\* listing is longer than a page
Selectors ==
  [a : {"none", "all"}, x : {"none", "x"}, y : {"month", "year"},
   t : {"none", "x", "y"}, u : {"u", "U"}, n : 1..MaxListing, k2 : {"none", "u"},
   long : {FALSE}, down : {{}}]

\* catalogs in which one endpoint raises on every call
OutageSelectors ==
  [a : {"all"}, x : {"x"}, y : {"month", "year"},
   t : {"x", "y"}, u : {"u", "U"}, n : {MaxListing}, k2 : {"u"},
   long : {FALSE}, down : {{e} : e \in Endpoints}]

\* catalogs in which artist i1 lists more albums than one page holds
LongSelectors ==
  [a : {"all"}, x : {"none", "x"}, y : {"month", "year"},
   t : {"none", "x", "y"}, u : {"u", "U"}, n : {MaxListing}, k2 : {"none", "u"},
   long : {TRUE}, down : {{}}]

Catalog(s) ==
  [ar |-> Ar(s), al |-> Al(s), tr |-> Tr(s), aa |-> Aa(s), at |-> At(s), down |-> s.down]

(***************************************************************************)
(* The state machine.  last is the workflow call that produced the state,  *)
(* and the exception it ended with ("none" when it returned).              *)
(***************************************************************************)
\* the catalog of the behaviour
cat == Catalog(sel)

NoCall == [op |-> "none", a1 |-> "", a2 |-> "", exc |-> "none"]

\* calls are the requests in flight when two of them overlap; none is in flight
\* where one workflow call is one action
NoCalls == <<>>

Init ==
  /\ genres = {}
  /\ artists = {}
  /\ albums = {}
  /\ songs = {}
  /\ sel \in Selectors
  /\ last = NoCall
  /\ calls = NoCalls

\* the state a call starts in; low and rev are the choices the call cannot control:
\* where the UUIDs it draws sort, and the order an unordered queryset comes in;
\* drawn records that the call came to depend on one of them
Begin(low, rev) ==
  [genres |-> genres, artists |-> artists, albums |-> albums, songs |-> songs,
   exc |-> "none", log |-> <<>>, low |-> low, rev |-> rev, drawn |-> FALSE]

\* the rows of a call that ended in an exception are discarded
Commit_atomic(st, op, a1, a2) ==
  /\ genres' = IF st.exc = "none" THEN st.genres ELSE genres
  /\ artists' = IF st.exc = "none" THEN st.artists ELSE artists
  /\ albums' = IF st.exc = "none" THEN st.albums ELSE albums
  /\ songs' = IF st.exc = "none" THEN st.songs ELSE songs
  /\ last' = [op |-> op, a1 |-> a1, a2 |-> a2, exc |-> st.exc]
  /\ UNCHANGED <<sel, calls>>

\* every write of a call is committed when it is made: no workflow and no view
\* opens a transaction around the call
Commit(st, op, a1, a2) ==
  /\ genres' = st.genres
  /\ artists' = st.artists
  /\ albums' = st.albums
  /\ songs' = st.songs
  /\ last' = [op |-> op, a1 |-> a1, a2 |-> a2, exc |-> st.exc]
  /\ UNCHANGED <<sel, calls>>

\* a call that drew no such choice has one outcome; a call that drew one has an
\* outcome for each way the choices can fall
FetchArtist ==
  \E artist \in ArtistNames :
    LET r == search_artist(Begin(FALSE, FALSE), cat, artist)
    IN \/ Commit(r, "search_artist", artist, "")
       \/ /\ r.drawn
          /\ Commit(search_artist(Begin(TRUE, FALSE), cat, artist), "search_artist", artist, "")

FetchTrack ==
  \E artist \in TrackArtists, track_name \in TrackNames :
    LET r == search_artist_and_song(Begin(FALSE, FALSE), cat, artist, track_name)
    IN \/ Commit(r, "search_artist_and_song", artist, track_name)
       \/ /\ r.drawn
          /\ Commit(search_artist_and_song(Begin(TRUE, FALSE), cat, artist, track_name),
                    "search_artist_and_song", artist, track_name)

FetchDiscography ==
  \E artist \in ArtistNames :
    LET r == search_all_albums_by_artist(Begin(FALSE, FALSE), cat, artist)
    IN \/ Commit(r, "search_all_albums_by_artist", artist, "")
       \/ /\ r.drawn
          /\ Commit(search_all_albums_by_artist(Begin(TRUE, FALSE), cat, artist),
                    "search_all_albums_by_artist", artist, "")

FetchFullCatalog ==
  \E artist \in ArtistNames :
    LET r == search_all_songs_by_artist(Begin(FALSE, FALSE), cat, artist)
    IN \/ Commit(r, "search_all_songs_by_artist", artist, "")
       \/ /\ r.drawn
          /\ \E low \in BOOLEAN, rev \in BOOLEAN :
               Commit(search_all_songs_by_artist(Begin(low, rev), cat, artist),
                      "search_all_songs_by_artist", artist, "")

Next == FetchArtist \/ FetchTrack \/ FetchDiscography \/ FetchFullCatalog

Spec == Init /\ [][Next]_vars

\* the same workflows against a catalog with an endpoint that raises
InitOutage ==
  /\ genres = {}
  /\ artists = {}
  /\ albums = {}
  /\ songs = {}
  /\ sel \in OutageSelectors
  /\ last = NoCall
  /\ calls = NoCalls

SpecOutage == InitOutage /\ [][Next]_vars

\* the same workflows against a catalog with a listing longer than a page
InitLong ==
  /\ genres = {}
  /\ artists = {}
  /\ albums = {}
  /\ songs = {}
  /\ sel \in LongSelectors
  /\ last = NoCall
  /\ calls = NoCalls

SpecLong == InitLong /\ [][Next]_vars

(***************************************************************************)
(* The get-or-create layer on its own: the resolvers hand it whatever the  *)
(* catalog answered, so its actions take their arguments from small sets.  *)
(***************************************************************************)
UpsertGenres == {"rock"}
UpsertArtists == {<<"a", "i1">>, <<"A", "i1">>}
UpsertAlbumNames == {"x", "X"}
UpsertAlbumTypes == {"album", "single"}
UpsertSongNames == {"t", "T"}
UpsertPopularities == {0, 50}

\* the sets of Artist objects a resolver hands over: none, or every stored Artist
StoredArtistSets == {{}, {ArtistKey(r) : r \in artists}}

\* the layer is explored up to MaxRows Artist, Album and Song rows
Rows(st) == Cardinality(st.artists) + Cardinality(st.albums) + Cardinality(st.songs)

Store(st, op) == Rows(st) <= MaxRows /\ Commit(st, op, "", "")

GetOrCreateGenre ==
  \E name \in UpsertGenres :
    Store(get_or_create_genres(Begin(FALSE, FALSE), name), "get_or_create_genres")

GetOrCreateArtist ==
  \E k \in UpsertArtists :
    LET r == get_or_create_artist(Begin(FALSE, FALSE), k[1], k[2], genres)
    IN \/ Store(r, "get_or_create_artist")
       \/ /\ r.drawn
          /\ Store(get_or_create_artist(Begin(TRUE, FALSE), k[1], k[2], genres),
                   "get_or_create_artist")

GetOrCreateAlbum ==
  \E name \in UpsertAlbumNames, album_type \in UpsertAlbumTypes, as \in StoredArtistSets :
    LET r == get_or_create_album(Begin(FALSE, FALSE), name, "1969", album_type, as, "k1")
    IN \/ Store(r, "get_or_create_album")
       \/ /\ r.drawn
          /\ Store(get_or_create_album(Begin(TRUE, FALSE), name, "1969", album_type, as, "k1"),
                   "get_or_create_album")

GetOrCreateSong ==
  \E name \in UpsertSongNames, o \in albums, popularity \in UpsertPopularities :
    LET r == get_or_create_song(Begin(FALSE, FALSE), name, AlbumKey(o), "1969", popularity, {})
    IN \/ Store(r, "get_or_create_song")
       \/ /\ r.drawn
          /\ Store(get_or_create_song(Begin(TRUE, FALSE), name, AlbumKey(o), "1969",
                                      popularity, {}),
                   "get_or_create_song")

NextUpsert == GetOrCreateGenre \/ GetOrCreateArtist \/ GetOrCreateAlbum \/ GetOrCreateSong

\* the catalog plays no part in the layer
InitUpsert ==
  /\ genres = {}
  /\ artists = {}
  /\ albums = {}
  /\ songs = {}
  /\ sel \in {s \in Selectors : s.a = "all" /\ s.x = "x" /\ s.y = "year" /\ s.t = "x"
                                /\ s.u = "u" /\ s.n = MaxListing /\ s.k2 = "u"}
  /\ last = NoCall
  /\ calls = NoCalls

SpecUpsert == InitUpsert /\ [][NextUpsert]_vars

(***************************************************************************)
(* Two overlapping search_artist calls.  Each request runs search_artist   *)
(* for the same name; a step of a request is one database access or the    *)
(* catalog query, and the steps of the two requests interleave freely.     *)
(* QuerySet.get_or_create is its three accesses: get, INSERT, and the get  *)
(* again after an INSERT the unique index refused.                         *)
(***************************************************************************)
Requests == {1, 2}
RaceNames == {"a", "A"}

NoCand == ACand("", "", <<>>)

\* the locals of a request: where it stands, the name it was called with, the
\* matching candidate, the index into its genre names, the Genres gathered, the
\* exception it ended with, and the models an INSERT of it was refused for
Request(name) ==
  [pc |-> "probe", artist |-> name, a |-> NoCand, gi |-> 1, gs |-> {}, exc |-> "none",
   lost |-> {}]

\* no unique index over (name, artist_id)
UniqueArtist_none(name, artist_id) == FALSE

\* unique_together (name, artist_id): the INSERT of such a row is refused
UniqueArtist(name, artist_id) ==
  \E r \in artists : r.name = name /\ r.artist_id = artist_id

\* Genre.name unique
UniqueGenre(name) == name \in genres

At_(p, pc) == calls[p].pc = pc

Go(p, f) == calls' = [calls EXCEPT ![p] = f]

\* if Artist.objects.filter(name=artist).exists(): return
Probe(p) ==
  /\ At_(p, "probe")
  /\ Go(p, [calls[p] EXCEPT !.pc = IF \E r \in artists : r.name = calls[p].artist
                                     THEN "done" ELSE "search"])
  /\ UNCHANGED <<tables, sel, last>>

\* client.search, the two early returns and the candidate loop up to its first match
Search(p) ==
  /\ At_(p, "search")
  /\ LET resp == ClientSearchArtist(cat, calls[p].artist)
         i == FirstMatch(resp.items, calls[p].artist)
     IN Go(p, IF resp.err \/ resp.items = <<>> \/ i = 0
              THEN [calls[p] EXCEPT !.pc = "done"]
              ELSE [calls[p] EXCEPT !.pc = "genre", !.a = resp.items[i], !.gi = 1, !.gs = {}])
  /\ UNCHANGED <<tables, sel, last>>

\* for genre in a["genres"]: the get of Genre.objects.get_or_create(name=genre)
GenreGet(p) ==
  /\ At_(p, "genre")
  /\ LET c == calls[p]
         gnames == c.a.genres
     IN Go(p, IF c.gi > Len(gnames) THEN [c EXCEPT !.pc = "artist"]
              ELSE IF ~GenreWanted(gnames[c.gi]) THEN [c EXCEPT !.gi = @ + 1]
              ELSE IF gnames[c.gi] \in genres
                   THEN [c EXCEPT !.gi = @ + 1, !.gs = @ \cup {gnames[c.gi]}]
              ELSE [c EXCEPT !.pc = "genre_insert"])
  /\ UNCHANGED <<tables, sel, last>>

\* the INSERT of the Genre
GenreInsert(p) ==
  /\ At_(p, "genre_insert")
  /\ LET c == calls[p]
         g == c.a.genres[c.gi]
     IN IF UniqueGenre(g)
        THEN /\ Go(p, [c EXCEPT !.pc = "genre_again", !.lost = @ \cup {"Genre"}])
             /\ UNCHANGED genres
        ELSE /\ genres' = genres \cup {g}
             /\ Go(p, [c EXCEPT !.pc = "genre", !.gi = @ + 1, !.gs = @ \cup {g}])
  /\ UNCHANGED <<artists, albums, songs, sel, last>>

\* the get after the refused INSERT; get_or_create raises the IntegrityError when
\* it finds nothing, and get_or_create_genres then looks the name up with iexact
GenreAgain(p) ==
  /\ At_(p, "genre_again")
  /\ LET c == calls[p]
         g == c.a.genres[c.gi]
     IN Go(p, IF g \in genres \/ \E n \in genres : IExact(n, g)
              THEN [c EXCEPT !.pc = "genre", !.gi = @ + 1, !.gs = @ \cup {g}]
              ELSE [c EXCEPT !.pc = "done", !.exc = "DoesNotExist"])
  /\ UNCHANGED <<tables, sel, last>>

\* the get of Artist.objects.get_or_create(name=a["name"], artist_id=a["id"])
ArtistGet(p) ==
  /\ At_(p, "artist")
  /\ LET c == calls[p]
     IN Go(p, IF \E r \in artists : r.name = c.a.name /\ r.artist_id = c.a.id
              THEN [c EXCEPT !.pc = "done"]
              ELSE [c EXCEPT !.pc = "artist_insert"])
  /\ UNCHANGED <<tables, sel, last>>

\* the INSERT of the Artist; its pk is a random UUID
ArtistInsert(p) ==
  /\ At_(p, "artist_insert")
  /\ LET c == calls[p]
         siblings == {r \in artists : IExact(r.name, c.a.name)}
         ranks == IF siblings = {} THEN {0}
                  ELSE {Min({r.rank : r \in siblings}) - 1, Max({r.rank : r \in siblings}) + 1}
     IN IF UniqueArtist(c.a.name, c.a.id)
        THEN /\ Go(p, [c EXCEPT !.pc = "artist_again", !.lost = @ \cup {"Artist"}])
             /\ UNCHANGED artists
        ELSE /\ \E k \in ranks :
                  artists' = artists \cup {[name |-> c.a.name, artist_id |-> c.a.id,
                                            genres |-> {}, rank |-> k]}
             /\ Go(p, [c EXCEPT !.pc = "created"])
  /\ UNCHANGED <<genres, albums, songs, sel, last>>

\* the get after the refused INSERT, then object_handling(Artist, name__iexact)
ArtistAgain(p) ==
  /\ At_(p, "artist_again")
  /\ LET c == calls[p]
     IN Go(p, IF \/ \E r \in artists : r.name = c.a.name /\ r.artist_id = c.a.id
                 \/ \E r \in artists : IExact(r.name, c.a.name)
              THEN [c EXCEPT !.pc = "done"]
              ELSE [c EXCEPT !.pc = "done", !.exc = "DoesNotExist"])
  /\ UNCHANGED <<tables, sel, last>>

\* if created: artist.genres.add(*list(genres)); artist.save()
AddGenres(p) ==
  /\ At_(p, "created")
  /\ LET c == calls[p]
     IN /\ artists' = {IF r.name = c.a.name /\ r.artist_id = c.a.id /\ r.genres = {}
                       THEN [r EXCEPT !.genres = c.gs] ELSE r : r \in artists}
        /\ Go(p, [c EXCEPT !.pc = "done"])
  /\ UNCHANGED <<genres, albums, songs, sel, last>>

NextRace ==
  \E p \in Requests :
    \/ Probe(p)
    \/ Search(p)
    \/ GenreGet(p)
    \/ GenreInsert(p)
    \/ GenreAgain(p)
    \/ ArtistGet(p)
    \/ ArtistInsert(p)
    \/ ArtistAgain(p)
    \/ AddGenres(p)

\* both requests are called with the same name while no Artist is stored
InitRace ==
  /\ genres \in SUBSET {"rock"}
  /\ artists = {}
  /\ albums = {}
  /\ songs = {}
  /\ sel \in {s \in Selectors : s.a = "all" /\ s.x = "x" /\ s.y = "year" /\ s.t = "x"
                                /\ s.u = "u" /\ s.n = MaxListing /\ s.k2 = "u"}
  /\ last = NoCall
  /\ \E name \in RaceNames : calls = [p \in Requests |-> Request(name)]

SpecRace == InitRace /\ [][NextRace]_vars

(***************************************************************************)
(* The workflows step by step.  calls is the stack of the resolver and     *)
(* workflow calls in progress, innermost first; a step runs the innermost  *)
(* call up to its next nested call, its return or its exception.  An       *)
(* exception unwinds the whole stack: no workflow catches one.             *)
(***************************************************************************)
Frame(fn, artist, name) ==
  [fn |-> fn, artist |-> artist, name |-> name, pc |-> "start", cand |-> NoCand,
   items |-> <<>>, i |-> 1, tracks |-> <<>>, k |-> 1, j |-> 1, acc |-> {}]

Top == Head(calls)
Callers == Tail(calls)
In(fn, pc) == calls # <<>> /\ Top.fn = fn /\ Top.pc = pc
Here == Begin(FALSE, FALSE)

\* the innermost call goes on as f
Continue(f) ==
  /\ calls' = <<f>> \o Callers
  /\ UNCHANGED <<tables, sel, last>>

\* the innermost call goes on as f after it has called fn(artist, name)
Invoke(fn, artist, name, f) ==
  /\ calls' = <<Frame(fn, artist, name), f>> \o Callers
  /\ UNCHANGED <<tables, sel, last>>

\* the innermost call returns
Return ==
  /\ calls' = Callers
  /\ UNCHANGED <<tables, sel, last>>

\* the innermost call has written st and returns, or st holds its exception
Land(st) ==
  /\ genres' = st.genres
  /\ artists' = st.artists
  /\ albums' = st.albums
  /\ songs' = st.songs
  /\ calls' = IF Ok(st) THEN Callers ELSE <<>>
  /\ last' = [last EXCEPT !.exc = st.exc]
  /\ UNCHANGED sel

\* a loop that takes the same element again
Advance_stay(j) == j

\* for x in ...: the loop goes to its next element
Advance(j) == j + 1

\* a view calls a workflow; the store is explored up to MaxRows rows
StartCall ==
  /\ calls = <<>>
  /\ Rows(Here) <= MaxRows
  /\ \E fn \in {"search_artist", "search_all_albums_by_artist", "search_all_songs_by_artist"},
        artist \in ArtistNames :
       /\ calls' = <<Frame(fn, artist, "")>>
       /\ last' = [op |-> fn, a1 |-> artist, a2 |-> "", exc |-> "none"]
  /\ UNCHANGED <<tables, sel>>

StartTrack ==
  /\ calls = <<>>
  /\ Rows(Here) <= MaxRows
  /\ \E artist \in TrackArtists, track_name \in TrackNames :
       /\ calls' = <<Frame("search_artist_and_song", artist, track_name)>>
       /\ last' = [op |-> "search_artist_and_song", a1 |-> artist, a2 |-> track_name,
                   exc |-> "none"]
  /\ UNCHANGED <<tables, sel>>

\* search_artist calls no resolver: it runs to its end
ArtistStep ==
  /\ In("search_artist", "start")
  /\ \E low \in BOOLEAN : Land(search_artist(Begin(low, FALSE), cat, Top.artist))

\* search_artist_and_album: probe, search, early returns, first matching candidate
AlbumStart ==
  /\ In("search_artist_and_album", "start")
  /\ LET resp == ClientSearchAlbum(cat, Top.artist, Top.name)
         i == FirstMatch(resp.items, Top.name)
     IN IF (\E r \in albums : r.name = Top.name) \/ resp.err \/ resp.items = <<>> \/ i = 0
        THEN Return
        ELSE Continue([Top EXCEPT !.pc = "artists", !.cand = resp.items[i], !.j = 1,
                                  !.acc = {}])

\* for album_artist in album["artists"]: search_artist; after the loop get_or_create_album
AlbumArtists ==
  /\ In("search_artist_and_album", "artists")
  /\ IF Top.j > Len(Top.cand.artists)
     THEN \E low \in BOOLEAN :
            Land(AlbumOf([st |-> Begin(low, FALSE), acc |-> Top.acc], Top.cand))
     ELSE Invoke("search_artist", Top.cand.artists[Top.j], "", [Top EXCEPT !.pc = "found"])

\* album_artists.add(object_handling(Artist, name__iexact))
AlbumArtistLookup ==
  /\ In("search_artist_and_album", "found")
  /\ LET ms == ArtistsIExact(Here, Top.cand.artists[Top.j])
     IN IF ms = {} THEN Land(object_handling(Here, ms))
        ELSE Continue([Top EXCEPT !.pc = "artists", !.j = Advance(@),
                                  !.acc = @ \cup {ArtistKey(First(ms))}])

\* search_artist_and_song: probe, search, early returns, first matching candidate
SongStart ==
  /\ In("search_artist_and_song", "start")
  /\ LET resp == ClientSearchTrack(cat, Top.artist, Top.name)
         i == FirstMatch(resp.items, Top.name)
     IN IF (\E s \in songs : s.name = Top.name) \/ resp.err \/ resp.items = <<>> \/ i = 0
        THEN Return
        ELSE Continue([Top EXCEPT !.pc = "album_artists", !.cand = resp.items[i], !.j = 1,
                                  !.acc = {}])

\* for a_artist in track["album"]["artists"]: search_artist
SongAlbumArtists ==
  /\ In("search_artist_and_song", "album_artists")
  /\ IF Top.j > Len(Top.cand.album.artists)
     THEN Continue([Top EXCEPT !.pc = "track_artists", !.j = 1])
     ELSE Invoke("search_artist", Top.cand.album.artists[Top.j], "",
                 [Top EXCEPT !.j = Advance(@)])

\* for track_artist in track["artists"]: search_artist; after the loop
\* search_artist_and_album(album_artist, track["album"]["name"])
SongTrackArtists ==
  /\ In("search_artist_and_song", "track_artists")
  /\ IF Top.j > Len(Top.cand.artists)
     THEN Invoke("search_artist_and_album", LastName(Top.cand.album.artists),
                 Top.cand.album.name, [Top EXCEPT !.pc = "song"])
     ELSE Invoke("search_artist", Top.cand.artists[Top.j], "",
                 [Top EXCEPT !.pc = "track_found"])

\* track_artists.add(object_handling(Artist, name__iexact))
SongTrackArtistFound ==
  /\ In("search_artist_and_song", "track_found")
  /\ LET ms == ArtistsIExact(Here, Top.cand.artists[Top.j])
     IN IF ms = {} THEN Land(object_handling(Here, ms))
        ELSE Continue([Top EXCEPT !.pc = "track_artists", !.j = Advance(@),
                                  !.acc = @ \cup {ArtistKey(First(ms))}])

\* object_handling(Album, name__iexact) and get_or_create_song
SongRow ==
  /\ In("search_artist_and_song", "song")
  /\ \E low \in BOOLEAN : Land(SongOnAlbum(Begin(low, FALSE), Top.cand, Top.acc))

\* search_all_albums_by_artist: self.search_artist(artist=artist)
DiscographyStart ==
  /\ In("search_all_albums_by_artist", "start")
  /\ Invoke("search_artist", Top.artist, "", [Top EXCEPT !.pc = "main"])

\* main_artist = object_handling(Artist, name__iexact); artist_albums; early returns
DiscographyMain ==
  /\ In("search_all_albums_by_artist", "main")
  /\ LET ms == ArtistsIExact(Here, Top.artist)
         resp == ClientArtistAlbums(cat, First(ms).artist_id)
     IN IF ms = {} THEN Land(object_handling(Here, ms))
        ELSE IF resp.err \/ resp.items = <<>> THEN Return
        ELSE Continue([Top EXCEPT !.pc = "albums", !.items = resp.items, !.i = 1, !.j = 1])

\* for album in albums: for a in album["artists"]: search_artist
DiscographyAlbums ==
  /\ In("search_all_albums_by_artist", "albums")
  /\ IF Top.i > Len(Top.items) THEN Return
     ELSE IF Top.j > Len(Top.items[Top.i].artists)
          THEN Continue([Top EXCEPT !.i = Advance(@), !.j = 1])
     ELSE Invoke("search_artist", Top.items[Top.i].artists[Top.j], "",
                 [Top EXCEPT !.pc = "album_found"])

\* album_artists.add(object_handling(...)); search_artist_and_album(a["name"], album["name"])
DiscographyAlbumFound ==
  /\ In("search_all_albums_by_artist", "album_found")
  /\ LET name == Top.items[Top.i].artists[Top.j]
         ms == ArtistsIExact(Here, name)
     IN IF ms = {} THEN Land(object_handling(Here, ms))
        ELSE Invoke("search_artist_and_album", name, Top.items[Top.i].name,
                    [Top EXCEPT !.pc = "albums", !.j = Advance(@)])

\* search_all_songs_by_artist: self.search_all_albums_by_artist(artist=artist)
CatalogStart ==
  /\ In("search_all_songs_by_artist", "start")
  /\ Invoke("search_all_albums_by_artist", Top.artist, "", [Top EXCEPT !.pc = "main"])

\* a = object_handling(Artist, name__iexact); all_albums = a.albums.all()
CatalogMain ==
  /\ In("search_all_songs_by_artist", "main")
  /\ LET ms == ArtistsIExact(Here, Top.artist)
     IN IF ms = {} THEN Land(object_handling(Here, ms))
        ELSE \E rev \in BOOLEAN :
               Continue([Top EXCEPT !.pc = "tracks", !.i = 1,
                           !.items = AllOf(Begin(FALSE, rev), AlbumsOf(Here, First(ms)))])

\* for album in all_albums: album_tracks; a failed or empty listing returns
CatalogTracks ==
  /\ In("search_all_songs_by_artist", "tracks")
  /\ IF Top.i > Len(Top.items) THEN Return
     ELSE LET resp == ClientAlbumTracks(cat, Top.items[Top.i].album_id)
          IN IF resp.err \/ resp.items = <<>> THEN Return
             ELSE Continue([Top EXCEPT !.pc = "songs", !.tracks = resp.items, !.k = 1,
                                       !.j = 1])

\* for song in album_songs: for artist_entry in song["artists"]: search_artist; then
\* search_artist_and_song(artist, song["name"])
CatalogSongs ==
  /\ In("search_all_songs_by_artist", "songs")
  /\ IF Top.k > Len(Top.tracks) THEN Continue([Top EXCEPT !.pc = "tracks", !.i = Advance(@)])
     ELSE IF Top.j > Len(Top.tracks[Top.k].artists)
          THEN Invoke("search_artist_and_song", Top.artist, Top.tracks[Top.k].name,
                      [Top EXCEPT !.k = Advance(@), !.j = 1])
     ELSE Invoke("search_artist", Top.tracks[Top.k].artists[Top.j], "",
                 [Top EXCEPT !.pc = "song_found"])

\* song_artists.add(object_handling(Artist, name__iexact))
CatalogSongArtistFound ==
  /\ In("search_all_songs_by_artist", "song_found")
  /\ LET ms == ArtistsIExact(Here, Top.tracks[Top.k].artists[Top.j])
     IN IF ms = {} THEN Land(object_handling(Here, ms))
        ELSE Continue([Top EXCEPT !.pc = "songs", !.j = Advance(@)])

NextSteps ==
  \/ StartCall
  \/ StartTrack
  \/ ArtistStep
  \/ AlbumStart
  \/ AlbumArtists
  \/ AlbumArtistLookup
  \/ SongStart
  \/ SongAlbumArtists
  \/ SongTrackArtists
  \/ SongTrackArtistFound
  \/ SongRow
  \/ DiscographyStart
  \/ DiscographyMain
  \/ DiscographyAlbums
  \/ DiscographyAlbumFound
  \/ CatalogStart
  \/ CatalogMain
  \/ CatalogTracks
  \/ CatalogSongs
  \/ CatalogSongArtistFound

StepSelectors ==
  {s \in Selectors : s.x = "x" /\ s.y = "year" /\ s.u = "u" /\ s.n = MaxListing}

InitSteps ==
  /\ genres = {}
  /\ artists = {}
  /\ albums = {}
  /\ songs = {}
  /\ sel \in StepSelectors
  /\ last = NoCall
  /\ calls = NoCalls

\* a call in progress is not suspended: the thread of a request runs on
SpecSteps == InitSteps /\ [][NextSteps]_vars /\ WF_vars(NextSteps)

(***************************************************************************)
(* Properties.                                                             *)
(***************************************************************************)
Tables(st) == <<st.genres, st.artists, st.albums, st.songs>>

\* the state a following call starts in, after a call that ended in st
Then(st, low, rev) == [st EXCEPT !.exc = "none", !.log = <<>>, !.low = low, !.rev = rev]

HasMatch(items, name) == FirstMatch(items, name) # 0

\* C1: from any store, two search_artist calls for the same name in sequence: the
\* second call leaves every table and every genre set as the first left them, the
\* first adds at most one Artist row, and when no Artist of that name (in any case)
\* was stored and the catalog has a match, exactly one Artist row has the name
C1_FetchArtistIdempotent ==
  \A artist \in ArtistNames, l1 \in BOOLEAN, l2 \in BOOLEAN :
    LET s0 == Begin(l1, FALSE)
        s1 == search_artist(s0, cat, artist)
        s2 == search_artist(Then(s1, l2, FALSE), cat, artist)
    IN /\ Tables(s2) = Tables(s1)
       /\ Ok(s1) /\ Ok(s2)
       /\ Cardinality(s1.artists \ artists) <= 1
       /\ (ArtistsIExact(s0, artist) = {} /\ HasMatch(ClientSearchArtist(cat, artist).items, artist))
            => Cardinality(ArtistsIExact(s2, artist)) = 1

\* a state search_artist produced: the Artist of the queried name is stored with genres
C1_Witness ==
  /\ last.op = "search_artist"
  /\ \E r \in artists : IExact(r.name, last.a1) /\ r.genres # {}
  /\ Cardinality(ArtistsIExact(Begin(FALSE, FALSE), last.a1)) = 1

\* C2: no two Artist rows have names that are equal case-insensitively
C2_CaseInsensitiveIdentity ==
  \A r1 \in artists, r2 \in artists : IExact(r1.name, r2.name) => r1 = r2

\* C3: a workflow call that repeats the call before it, with the same arguments,
\* leaves all four tables (rows and relationship sets) as they were
C3_WorkflowsIdempotent ==
  [][(/\ last.op # "none"
      /\ last'.op = last.op
      /\ last'.a1 = last.a1
      /\ last'.a2 = last.a2) => tables' = tables]_vars

Range(seq) == {seq[i] : i \in 1..Len(seq)}

Created(log, k, kind, name) == \E j \in 1..(k - 1) : log[j] = Ev("create", kind, name)

\* every row a call created was created after the rows it refers to
CreationOrder(s0, st) ==
  \A k \in 1..Len(st.log) :
    LET e == st.log[k]
    IN e.ev = "create" =>
         /\ e.kind = "Artist" =>
              \A r \in st.artists \ s0.artists :
                r.name = e.name =>
                  \A g \in r.genres : g \in s0.genres \/ Created(st.log, k, "Genre", g)
         /\ e.kind = "Album" =>
              \A r \in st.albums \ s0.albums :
                r.name = e.name =>
                  \A a \in r.artists :
                    \/ \E o \in s0.artists : ArtistKey(o) = a
                    \/ Created(st.log, k, "Artist", a[1])
         /\ e.kind = "Song" =>
              \A r \in st.songs \ s0.songs :
                r.name = e.name =>
                  \/ \E o \in s0.albums : AlbumKey(o) = r.album
                  \/ Created(st.log, k, "Album", r.album[1])

\* the track candidate search_artist_and_song takes for a query
TrackOf(c, artist, track_name) ==
  LET items == ClientSearchTrack(c, artist, track_name).items
  IN items[FirstMatch(items, track_name)]

HasTrack(c, artist, track_name) ==
  HasMatch(ClientSearchTrack(c, artist, track_name).items, track_name)

\* C4: in a search_artist_and_song call the Genres of an Artist are created before
\* the Artist, the Artists of an Album before the Album and the Album before the
\* Song; a Song is created only with the Album of the candidate's album name; and in
\* every state every Song refers to a stored Album, every Album to stored Artists,
\* every Artist to stored Genres
C4_NestedResolutionOrder ==
  /\ \A r \in songs : \E o \in albums : AlbumKey(o) = r.album
  /\ \A r \in albums : \A a \in r.artists : \E o \in artists : ArtistKey(o) = a
  /\ \A r \in artists : r.genres \subseteq genres
  /\ \A artist \in TrackArtists, track_name \in TrackNames, low \in BOOLEAN :
       LET s0 == Begin(low, FALSE)
           st == search_artist_and_song(s0, cat, artist, track_name)
       IN /\ CreationOrder(s0, st)
          /\ \A r \in st.songs \ s0.songs :
               /\ HasTrack(cat, artist, track_name)
               /\ IExact(r.album[1], TrackOf(cat, artist, track_name).album.name)
               /\ \E o \in st.albums : AlbumKey(o) = r.album

\* a state search_artist_and_song produced, with the one Song, its Album, the
\* Album's Artist and the Artist's Genres
C4_Witness ==
  /\ last.op = "search_artist_and_song"
  /\ Cardinality(songs) = 1
  /\ Cardinality(albums) = 1
  /\ \E r \in songs, o \in albums, a \in artists :
       /\ r.album = AlbumKey(o)
       /\ ArtistKey(a) \in o.artists
       /\ a.genres # {}

\* the Artist keys object_handling yields for a list of artist names
ResolvedKeys(rows, names) ==
  {ArtistKey(First({r \in rows : IExact(r.name, n)})) :
     n \in {m \in Range(names) : \E r \in rows : IExact(r.name, m)}}

\* C5: a Song that search_artist_and_song creates has the Album of its track
\* candidate, an Album whose artist set contains every resolved album artist of the
\* candidate, and has exactly the resolved track artists of the candidate
C5_SongCrossLinked ==
  [][(last'.op = "search_artist_and_song" /\ songs' # songs) =>
       LET track == TrackOf(cat, last'.a1, last'.a2)
       IN \A r \in songs' \ songs :
            /\ r.artists = ResolvedKeys(artists', track.artists)
            /\ \A o \in albums' :
                 AlbumKey(o) = r.album =>
                   /\ IExact(o.name, track.album.name)
                   /\ \A n \in Range(track.album.artists) :
                        (\E x \in artists' : IExact(x.name, n)) =>
                          \E a \in o.artists : IExact(a[1], n)]_vars

Unresolvable(c, rows, n) ==
  /\ ~HasMatch(ClientSearchArtist(c, n).items, n)
  /\ ~\E r \in rows : IExact(r.name, n)

\* C6: when the track candidate lists an artist that neither the catalog nor the
\* store knows, and the candidate's album resolves and its date is a year or a full
\* date, search_artist_and_song still creates the Song and does not raise
C6_SoftNotFoundTolerated ==
  [][(/\ last'.op = "search_artist_and_song"
      /\ ~\E r \in songs : r.name = last'.a2
      /\ HasTrack(cat, last'.a1, last'.a2)
      /\ LET track == TrackOf(cat, last'.a1, last'.a2)
         IN /\ \E n \in Range(track.artists) : Unresolvable(cat, artists, n)
            /\ ValidDate(NormDate(track.album.release_date))
            /\ \/ \E o \in albums : IExact(o.name, track.album.name)
               \/ HasMatch(ClientSearchAlbum(cat, "", track.album.name).items,
                           track.album.name))
     => /\ last'.exc = "none"
        /\ \E r \in songs' : r.name = TrackOf(cat, last'.a1, last'.a2).name]_vars

\* the artist candidate and the album listing a discography call works from
ArtistOf(c, artist) ==
  LET items == ClientSearchArtist(c, artist).items
  IN items[FirstMatch(items, artist)]

\* the catalog lists k distinctly named albums for the artist, each with that one artist
ListsOwnAlbums(c, artist) ==
  /\ HasMatch(ClientSearchArtist(c, artist).items, artist)
  /\ ArtistOf(c, artist).name = artist
  /\ LET items == c.aa[ArtistOf(c, artist).id]
     IN /\ \A i \in 1..Len(items) : items[i].artists = <<artist>>
        /\ \A i \in 1..Len(items), j \in 1..Len(items) :
             items[i].name = items[j].name => i = j

Discography(artist, as, als, k) ==
  /\ Cardinality(as) = 1
  /\ \A r \in as : r.name = artist
  /\ Cardinality(als) = k
  /\ \A o \in als : \E a \in o.artists : a[1] = artist

\* the album search answers each listed album with that album: its first name match
\* has the listed name and the one artist
SearchFindsListed(c, artist) ==
  LET items == c.aa[ArtistOf(c, artist).id]
  IN /\ Len(items) <= AlbumLimit
     /\ \A i \in 1..Len(items) :
          LET hits == ClientSearchAlbum(c, artist, items[i].name).items
              m == FirstMatch(hits, items[i].name)
          IN /\ m # 0
             /\ hits[m].name = items[i].name
             /\ hits[m].artists = <<artist>>

\* C7: from the empty store, search_all_albums_by_artist(A) against a catalog that
\* lists k distinctly named albums, each with the one artist A, and whose album
\* search finds each of them, ends with one Artist row, named A, and k Album rows
\* that each have A in their artist set
C7_Discography ==
  [][(/\ artists = {} /\ albums = {} /\ songs = {} /\ genres = {}
      /\ last'.op = "search_all_albums_by_artist"
      /\ ListsOwnAlbums(cat, last'.a1)
      /\ SearchFindsListed(cat, last'.a1))
     => Discography(last'.a1, artists', albums', Len(cat.aa[ArtistOf(cat, last'.a1).id]))]_vars

\* C8: every stored Song has a popularity within the validators' limits
C8_PopularityInRange ==
  \A r \in songs : MinPopularity <= r.popularity /\ r.popularity <= MaxPopularity

\* the release dates a call handed to Album/Song get_or_create
Upserted(log) == {log[i].name : i \in {j \in 1..Len(log) : log[j].ev = "upsert"}}

\* each release date a call handed to get_or_create: a year is followed by -01-01, a
\* full date is unchanged
DatesNormalised(log) ==
  \A k \in 1..Len(log) :
    log[k].ev = "release_date" =>
      /\ k < Len(log)
      /\ log[k + 1].ev = "upsert"
      /\ log[k].name \in Years => log[k + 1].name = log[k].name \o "-01-01"
      /\ log[k].name \in ValidDates => log[k + 1].name = log[k].name

\* the rows a call created hold the date that was handed to get_or_create
DatesStored(s0, st) ==
  /\ \A r \in st.albums \ s0.albums : Ev("upsert", "Album", r.release_date) \in Range(st.log)
  /\ \A r \in st.songs \ s0.songs : Ev("upsert", "Song", r.release_date) \in Range(st.log)

\* C9: get_or_create_album and get_or_create_song store a year-only release date Y
\* as Y-01-01 and a full YYYY-MM-DD release date unchanged
C9_DateNormalization ==
  /\ \A artist \in TrackArtists, track_name \in TrackNames :
       LET s0 == Begin(FALSE, FALSE)
           st == search_artist_and_song(s0, cat, artist, track_name)
       IN DatesNormalised(st.log) /\ DatesStored(s0, st)
  /\ \A artist \in ArtistNames :
       LET s0 == Begin(FALSE, FALSE)
           st == search_all_albums_by_artist(s0, cat, artist)
       IN DatesNormalised(st.log) /\ DatesStored(s0, st)

\* a stored Album that came from a year and a stored Song that came from a full date
C9_Witness ==
  /\ \E o \in albums : o.release_date = "1969-01-01"
  /\ \E r \in songs : r.release_date = "1969-08-15"

\* C10: every release date a call hands to get_or_create has the YYYY-MM-DD shape
C10_DatesWellFormed ==
  /\ \A artist \in TrackArtists, track_name \in TrackNames :
       \A d \in Upserted(search_artist_and_song(Begin(FALSE, FALSE), cat, artist,
                                                track_name).log) : ValidDate(d)
  /\ \A artist \in ArtistNames :
       \A d \in Upserted(search_all_albums_by_artist(Begin(FALSE, FALSE), cat,
                                                     artist).log) : ValidDate(d)

\* a catalog call of the call that ended in st raised
Failed(st, c) == \E k \in 1..Len(st.log) : st.log[k].ev = "call" /\ st.log[k].kind \in c.down

\* C11: a workflow call in which a catalog call raised, made directly or by a nested
\* resolver, returns to its caller without an exception
C11_CatalogErrorsContained ==
  /\ \A artist \in ArtistNames :
        LET r == search_artist(Begin(FALSE, FALSE), cat, artist)
        IN Failed(r, cat) => Ok(r)
  /\ \A artist \in TrackArtists, track_name \in TrackNames :
        LET r == search_artist_and_song(Begin(FALSE, FALSE), cat, artist, track_name)
        IN Failed(r, cat) => Ok(r)
  /\ \A artist \in ArtistNames :
        LET r == search_all_albums_by_artist(Begin(FALSE, FALSE), cat, artist)
        IN Failed(r, cat) => Ok(r)
  /\ \A artist \in ArtistNames :
        LET r == search_all_songs_by_artist(Begin(FALSE, FALSE), cat, artist)
        IN Failed(r, cat) => Ok(r)

\* after the first catalog call that raised, the call that ended in st made no
\* further catalog call and created no further row
QuietAfterFailure(st, c) ==
  \A k \in 1..Len(st.log), j \in 1..Len(st.log) :
    (k < j /\ st.log[k].ev = "call" /\ st.log[k].kind \in c.down)
      => st.log[j].ev \notin {"call", "create"}

\* C12: once a catalog call of a workflow call has raised, that workflow call issues
\* no further catalog calls and writes nothing further to the store
C12_FailureAbortsRemainder ==
  /\ \A artist \in ArtistNames :
       QuietAfterFailure(search_artist(Begin(FALSE, FALSE), cat, artist), cat)
  /\ \A artist \in TrackArtists, track_name \in TrackNames :
       QuietAfterFailure(search_artist_and_song(Begin(FALSE, FALSE), cat, artist, track_name), cat)
  /\ \A artist \in ArtistNames :
       QuietAfterFailure(search_all_albums_by_artist(Begin(FALSE, FALSE), cat, artist), cat)
  /\ \A artist \in ArtistNames :
       QuietAfterFailure(search_all_songs_by_artist(Begin(FALSE, FALSE), cat, artist), cat)

\* the workflow call op(a1, a2) from the current state
Call(op, a1, a2, low, rev) ==
  CASE op = "search_artist" -> search_artist(Begin(low, rev), cat, a1)
    [] op = "search_artist_and_song" -> search_artist_and_song(Begin(low, rev), cat, a1, a2)
    [] op = "search_all_albums_by_artist" -> search_all_albums_by_artist(Begin(low, rev), cat, a1)
    [] OTHER -> search_all_songs_by_artist(Begin(low, rev), cat, a1)

\* the call that ended in st stopped on a catalog failure or on an exception
Aborted(st, c) == Failed(st, c) \/ ~Ok(st)

\* the rows the call that ended in st created, and the rows and relationship sets
\* it ended with, are in the store after the step
WritesKept(st) ==
  /\ \A k \in 1..Len(st.log) :
       LET e == st.log[k]
       IN e.ev = "create" =>
            CASE e.kind = "Genre" -> e.name \in genres'
              [] e.kind = "Artist" -> \E r \in artists' : r.name = e.name
              [] e.kind = "Album" -> \E r \in albums' : r.name = e.name
              [] OTHER -> \E r \in songs' : r.name = e.name
  /\ st.genres \subseteq genres'
  /\ st.artists \subseteq artists'
  /\ st.albums \subseteq albums'
  /\ st.songs \subseteq songs'

StoreGrows ==
  /\ genres \subseteq genres'
  /\ artists \subseteq artists'
  /\ albums \subseteq albums'
  /\ songs \subseteq songs'

\* C13: when a workflow call stopped on a catalog failure or on any other error, the
\* rows and relationship members it wrote before stopping are in the store after
\* it, and the store after it contains the store before it
C13_NoRollbackOnAbort ==
  [][\E low \in BOOLEAN, rev \in BOOLEAN :
       \E r \in {Call(last'.op, last'.a1, last'.a2, low, rev)} :
         /\ last'.exc = r.exc
         /\ Aborted(r, cat) => (WritesKept(r) /\ StoreGrows)]_vars

\* a track resolution that stopped on an exception while an endpoint raises, after
\* it had stored an Artist
C13_Witness ==
  /\ cat.down # {}
  /\ last.op = "search_artist_and_song"
  /\ last.exc # "none"
  /\ artists # {}

\* the albums-by-artist listing of the catalog's match for the artist
ListingOf(c, artist) == c.aa[ArtistOf(c, artist).id]

\* the listed album i of the artist is stored, when the album search finds it
ListedAlbumStored(c, artist, i, als) ==
  LET name == ListingOf(c, artist)[i].name
  IN HasMatch(ClientSearchAlbum(c, artist, name).items, name)
       => \E o \in als : IExact(o.name, name)

\* C14: a search_all_albums_by_artist call that returned, for an artist whose
\* listing is longer than one page of 20, leaves every listed album that the album
\* search finds stored, those after the first 20 included
C14_EveryListedAlbumProcessed ==
  [][(/\ last'.op = "search_all_albums_by_artist"
      /\ last'.exc = "none"
      /\ HasMatch(ClientSearchArtist(cat, last'.a1).items, last'.a1)
      /\ Len(ListingOf(cat, last'.a1)) > AlbumLimit)
     => \A i \in 1..Len(ListingOf(cat, last'.a1)) :
          ListedAlbumStored(cat, last'.a1, i, albums')]_vars

\* the track listing of the album with key k lists a track of this name
ListedOn(c, als, k, name) ==
  \E o \in als :
    /\ AlbumKey(o) = k
    /\ o.album_id \in DOMAIN c.at
    /\ \E i \in 1..Len(c.at[o.album_id]) : IExact(c.at[o.album_id][i].name, name)

\* C15: every Song a search_all_songs_by_artist call creates is stored with the
\* Album whose track listing it was found in
C15_SongsKeyedByAlbum ==
  [][last'.op = "search_all_songs_by_artist"
     => \A r \in songs' \ songs : ListedOn(cat, albums', r.album, r.name)]_vars

\* what the view tells its user after the call l: the workflows return None on every
\* path and the view calls messages.success after the call, whatever it did; an
\* exception of the call leaves the view before any message
ViewMessage(l) == IF l.exc = "none" THEN "success" ELSE "exception"

\* C16: after a workflow call that stopped on a failed catalog call, or that
\* created nothing, the view reports a failure
C16_StatusReported ==
  [][\E low \in BOOLEAN, rev \in BOOLEAN :
       \E r \in {Call(last'.op, last'.a1, last'.a2, low, rev)} :
         /\ last'.exc = r.exc
         /\ (Failed(r, cat) \/ tables' = tables) => ViewMessage(last') = "failure"]_vars

\* the call that ended in st made no catalog call and left the store of s0 as it was
ShortCircuited(s0, st) ==
  /\ \A k \in 1..Len(st.log) : st.log[k].ev # "call"
  /\ Tables(st) = Tables(s0)

\* C17: a resolver called with a name that a stored Artist (search_artist), Album
\* (search_artist_and_album) or Song (search_artist_and_song) has, compared
\* case-insensitively, makes no catalog call and leaves the store unchanged,
\* whatever the artist argument
C17_ShortCircuit ==
  /\ \A artist \in ArtistNames :
       ArtistsIExact(Begin(FALSE, FALSE), artist) # {}
         => ShortCircuited(Begin(FALSE, FALSE), search_artist(Begin(FALSE, FALSE), cat, artist))
  /\ \A artist \in TrackArtists, album_name \in {"x", "X", "y"} :
       AlbumsIExact(Begin(FALSE, FALSE), album_name) # {}
         => ShortCircuited(Begin(FALSE, FALSE),
                           search_artist_and_album(Begin(FALSE, FALSE), cat, artist, album_name))
  /\ \A artist \in TrackArtists, track_name \in TrackNames :
       (\E s \in songs : IExact(s.name, track_name))
         => ShortCircuited(Begin(FALSE, FALSE),
                           search_artist_and_song(Begin(FALSE, FALSE), cat, artist, track_name))

\* no artist of the Album o has one of the names
Apart(o, names) == \A a \in o.artists, n \in Range(names) : ~IExact(a[1], n)

\* a Song created for a track whose album name a stored Album of other artists has
\* is not stored with an Album of other artists
TrackKeptApart ==
  (/\ last'.op = "search_artist_and_song"
   /\ HasTrack(cat, last'.a1, last'.a2))
  => LET album == TrackOf(cat, last'.a1, last'.a2).album
     IN (/\ album.artists # <<>>
         /\ \E o \in albums : o.name = album.name /\ Apart(o, album.artists))
        => \A r \in songs' \ songs :
             \A o \in albums' : AlbumKey(o) = r.album => ~Apart(o, album.artists)

\* after a discography call that returned, a listed album whose name a stored Album
\* of other artists has is stored with a listed artist in its artist set
ListedKeptApart ==
  (/\ last'.op = "search_all_albums_by_artist"
   /\ last'.exc = "none"
   /\ HasMatch(ClientSearchArtist(cat, last'.a1).items, last'.a1))
  => \A i \in 1..Min({Len(ListingOf(cat, last'.a1)), AlbumLimit}) :
       LET item == ListingOf(cat, last'.a1)[i]
       IN (/\ item.artists # <<>>
           /\ \E o \in albums : o.name = item.name /\ Apart(o, item.artists))
          => \E o \in albums' : IExact(o.name, item.name) /\ ~Apart(o, item.artists)

\* C18: resolving album name N for artist B, from a discography listing or as the
\* album of a track, while an Album named N with other artists is stored, yields an
\* Album named N with B in its artist set, and B's track is not stored with the
\* Album of the other artists
C18_SameNameAlbumsKeptApart == [][TrackKeptApart /\ ListedKeptApart]_vars

\* the album candidate search_artist_and_album takes for an album name
AlbumCandidate(c, artist, album_name) ==
  LET items == ClientSearchAlbum(c, artist, album_name).items
  IN items[FirstMatch(items, album_name)]

\* the stored Album of the candidate's name and id has every artist of the candidate
\* that is stored
MembersAdded(cand, as, als) ==
  \A o \in als :
    AlbumKey(o) = <<cand.name, cand.id>> =>
      \A n \in Range(cand.artists) :
        (\E x \in as : IExact(x.name, n)) => \E a \in o.artists : IExact(a[1], n)

\* C19: when search_artist_and_song passes its probes (no Song of the track name, no
\* Album of the track's album name) and the album search yields a candidate whose
\* Album (name and id) is already stored, every artist of the candidate is in the
\* artist set of that Album after the call
C19_MissingMembersAdded ==
  [][(/\ last'.op = "search_artist_and_song"
      /\ HasTrack(cat, last'.a1, last'.a2)
      /\ ~\E s \in songs : s.name = last'.a2
      /\ ~\E o \in albums : o.name = TrackOf(cat, last'.a1, last'.a2).album.name
      /\ HasMatch(ClientSearchAlbum(cat, last'.a1, TrackOf(cat, last'.a1, last'.a2).album.name).items,
                  TrackOf(cat, last'.a1, last'.a2).album.name)
      /\ \E o \in albums :
           AlbumKey(o) = LET cand == AlbumCandidate(cat, last'.a1,
                                                    TrackOf(cat, last'.a1, last'.a2).album.name)
                         IN <<cand.name, cand.id>>)
     => MembersAdded(AlbumCandidate(cat, last'.a1, TrackOf(cat, last'.a1, last'.a2).album.name),
                     artists', albums')]_vars

NoneMatches(items, name) == \A i \in 1..Len(items) : ~IExact(items[i].name, name)

\* a search_artist step: the Artist rows it created have the queried name, and with
\* no candidate of that name it returned and left the store as it was
ArtistFiltered ==
  last'.op = "search_artist" =>
    /\ \A r \in artists' \ artists : IExact(r.name, last'.a1)
    /\ NoneMatches(ClientSearchArtist(cat, last'.a1).items, last'.a1)
         => (last'.exc = "none" /\ tables' = tables)

\* a search_artist_and_song step: the Song rows it created have the queried name,
\* and with no candidate of that name it returned and left the store as it was
SongFiltered ==
  last'.op = "search_artist_and_song" =>
    /\ \A r \in songs' \ songs : IExact(r.name, last'.a2)
    /\ NoneMatches(ClientSearchTrack(cat, last'.a1, last'.a2).items, last'.a2)
         => (last'.exc = "none" /\ tables' = tables)

\* the search_artist_and_album call of a search_artist_and_song step: the Album rows
\* it created have the album name of the track, and with no candidate of that name
\* it created no Album
AlbumFiltered ==
  (last'.op = "search_artist_and_song" /\ albums' # albums) =>
    /\ HasTrack(cat, last'.a1, last'.a2)
    /\ \A o \in albums' \ albums :
         IExact(o.name, TrackOf(cat, last'.a1, last'.a2).album.name)
    /\ ~NoneMatches(ClientSearchAlbum(cat, last'.a1,
                                      TrackOf(cat, last'.a1, last'.a2).album.name).items,
                    TrackOf(cat, last'.a1, last'.a2).album.name)

\* C20: search_artist creates Artist rows, search_artist_and_album Album rows and
\* search_artist_and_song Song rows only with a name equal to the queried name
\* case-insensitively; a candidate whose name contains the queried name creates no
\* row; and when no candidate has the queried name the call returns without an
\* exception and leaves the store unchanged
C20_ExactNameFilter == [][ArtistFiltered /\ SongFiltered /\ AlbumFiltered]_vars

\* search_artist has stored the Artist of the queried name from a result whose first
\* candidate has a longer name that contains it, and no row of that longer name
C20_Witness ==
  /\ last.op = "search_artist"
  /\ Len(ClientSearchArtist(cat, last.a1).items) > 1
  /\ ~IExact(ClientSearchArtist(cat, last.a1).items[1].name, last.a1)
  /\ \E r \in artists : r.name = last.a1
  /\ ~\E r \in artists : r.name = ClientSearchArtist(cat, last.a1).items[1].name

\* the candidates of the queried name, and the first of them in response order
Named(items, name) == {i \in 1..Len(items) : IExact(items[i].name, name)}

FirstNamed(items, name) == items[Min(Named(items, name))]

\* a search_artist step creates at most one Artist, from the first candidate of the name
ArtistTieBreak ==
  last'.op = "search_artist" =>
    /\ Cardinality(artists' \ artists) <= 1
    /\ \A r \in artists' \ artists :
         LET a == FirstNamed(ClientSearchArtist(cat, last'.a1).items, last'.a1)
         IN ArtistKey(r) = <<a.name, a.id>>

\* a search_artist_and_song step creates at most one Song, from the first track
\* candidate of the name
SongTieBreak ==
  last'.op = "search_artist_and_song" =>
    /\ Cardinality(songs' \ songs) <= 1
    /\ \A r \in songs' \ songs :
         LET track == FirstNamed(ClientSearchTrack(cat, last'.a1, last'.a2).items, last'.a2)
         IN r.name = track.name /\ r.popularity = track.popularity

\* its search_artist_and_album call creates at most one Album, from the first album
\* candidate of the track's album name
AlbumTieBreak ==
  last'.op = "search_artist_and_song" =>
    /\ Cardinality(albums' \ albums) <= 1
    /\ \A o \in albums' \ albums :
         LET track == FirstNamed(ClientSearchTrack(cat, last'.a1, last'.a2).items, last'.a2)
             album == FirstNamed(ClientSearchAlbum(cat, last'.a1, track.album.name).items,
                                 track.album.name)
         IN AlbumKey(o) = <<album.name, album.id>> /\ o.album_type = album.album_type

\* C21: when several candidates of a response have the queried name, the resolver
\* takes the first in response order and ignores the later ones: a call creates at
\* most one Artist (search_artist), one Album (search_artist_and_album), one Song
\* (search_artist_and_song)
C21_FirstMatchTaken == [][ArtistTieBreak /\ SongTieBreak /\ AlbumTieBreak]_vars

\* search_artist_and_song has stored the one Song and the one Album from responses
\* that each hold two candidates of the queried name
C21_Witness ==
  /\ last.op = "search_artist_and_song"
  /\ Cardinality(Named(ClientSearchTrack(cat, last.a1, last.a2).items, last.a2)) > 1
  /\ Cardinality(songs) = 1
  /\ Cardinality(albums) = 1
  /\ \E r \in songs, o \in albums :
       /\ r.album = AlbumKey(o)
       /\ Cardinality(Named(ClientSearchAlbum(cat, last.a1, o.name).items, o.name)) > 1

\* the genre names of a candidate that are neither empty nor the placeholder
RealGenres(a) == {g \in Range(a.genres) : g # "" /\ g # "-"}

\* no Genre row and no genre of an Artist is the empty name or the placeholder
NoPlaceholderGenre(gs, as) ==
  /\ "" \notin gs /\ "-" \notin gs
  /\ \A r \in as : "" \notin r.genres /\ "-" \notin r.genres

\* in the log of a search_artist call, the Genres of the Artist it created were
\* stored before the call or created earlier in the call
GenresFirst(gs, new, log) ==
  \A k \in 1..Len(log) :
    (log[k].ev = "create" /\ log[k].kind = "Artist") =>
      \A r \in new : \A g \in r.genres : g \in gs \/ Created(log, k, "Genre", g)

\* C22: the empty genre name and the placeholder "-" never become a Genre row or a
\* genre of an Artist; in a search_artist call every other genre name of the chosen
\* candidate is a Genre row before the Artist is created, and the genre set of the
\* new Artist is the set of those names
C22_GenreHandling ==
  [][/\ NoPlaceholderGenre(genres', artists')
     /\ last'.op = "search_artist" =>
          \E low \in BOOLEAN :
            \E r \in {search_artist(Begin(low, FALSE), cat, last'.a1)} :
              /\ Tables(r) = tables'
              /\ GenresFirst(genres, artists' \ artists, r.log)
              /\ \A x \in artists' \ artists :
                   /\ x.genres = RealGenres(FirstNamed(ClientSearchArtist(cat, last'.a1).items,
                                                       last'.a1))
                   /\ x.genres \subseteq genres']_vars

\* search_artist has stored an Artist from a candidate whose genre names include an
\* empty name or the placeholder, with the other names as its genres
C22_Witness ==
  /\ last.op = "search_artist"
  /\ Named(ClientSearchArtist(cat, last.a1).items, last.a1) # {}
  /\ LET a == FirstNamed(ClientSearchArtist(cat, last.a1).items, last.a1)
     IN /\ RealGenres(a) # Range(a.genres)
        /\ RealGenres(a) # {}
        /\ \E r \in artists : ArtistKey(r) = <<a.name, a.id>> /\ r.genres = RealGenres(a)

\* get_or_create on these fields finds no row and cannot create one: a stored Album
\* has the name and the id with another date or type
AlbumConflict(name, d, album_type, album_id) ==
  /\ \E r \in albums : r.name = name /\ r.album_id = album_id
  /\ ~\E r \in albums : /\ r.name = name /\ r.album_id = album_id
                        /\ r.release_date = d /\ r.album_type = album_type

\* likewise a stored Song has the name and the date with another album or popularity
SongConflict(name, album, d, popularity) ==
  /\ \E s \in songs : s.name = name /\ s.release_date = d
  /\ ~\E s \in songs : /\ s.name = name /\ s.release_date = d
                       /\ s.album = album /\ s.popularity = popularity

\* the rows the fallback is meant to find
AlbumFallbackRows(name, as) == {o \in albums : IExact(o.name, name) /\ as \subseteq o.artists}

SongFallbackRows(name, album) == {s \in songs : IExact(s.name, name) /\ s.album = album}

\* C23: a get_or_create_album or get_or_create_song call that meets a uniqueness
\* conflict while a stored row has the name (case-insensitively) and the artists or
\* the album of the call returns without an exception and creates no row
C23_ConflictRecovery ==
  /\ \A name \in UpsertAlbumNames, album_type \in UpsertAlbumTypes, as \in StoredArtistSets :
       (AlbumConflict(name, "1969-01-01", album_type, "k1") /\ AlbumFallbackRows(name, as) # {})
         => \E r \in {get_or_create_album(Begin(FALSE, FALSE), name, "1969", album_type, as, "k1")} :
              Ok(r) /\ Tables(r) = tables
  /\ \A name \in UpsertSongNames, o \in albums, popularity \in UpsertPopularities :
       (SongConflict(name, AlbumKey(o), "1969-01-01", popularity)
          /\ SongFallbackRows(name, AlbumKey(o)) # {})
         => \E r \in {get_or_create_song(Begin(FALSE, FALSE), name, AlbumKey(o), "1969",
                                         popularity, {})} :
              Ok(r) /\ Tables(r) = tables

\* C24: a get_or_create_album or get_or_create_song call that meets a uniqueness
\* conflict while no stored row has the name (case-insensitively) and the artists or
\* the album of the call ends in DoesNotExist and creates no row
C24_FatalConsistencyError ==
  /\ \A name \in UpsertAlbumNames, album_type \in UpsertAlbumTypes, as \in StoredArtistSets :
       (AlbumConflict(name, "1969-01-01", album_type, "k1") /\ AlbumFallbackRows(name, as) = {})
         => \E r \in {get_or_create_album(Begin(FALSE, FALSE), name, "1969", album_type, as, "k1")} :
              r.exc = "DoesNotExist" /\ Tables(r) = tables
  /\ \A name \in UpsertSongNames, o \in albums, popularity \in UpsertPopularities :
       (SongConflict(name, AlbumKey(o), "1969-01-01", popularity)
          /\ SongFallbackRows(name, AlbumKey(o)) = {})
         => \E r \in {get_or_create_song(Begin(FALSE, FALSE), name, AlbumKey(o), "1969",
                                         popularity, {})} :
              r.exc = "DoesNotExist" /\ Tables(r) = tables

\* each row of the store before the step is a row after it, with the same scalar
\* fields and with every member of its relationship set
ArtistsKept ==
  \A r \in artists :
    \E q \in artists' :
      /\ q.name = r.name /\ q.artist_id = r.artist_id /\ q.rank = r.rank
      /\ r.genres \subseteq q.genres

AlbumsKept ==
  \A r \in albums :
    \E q \in albums' :
      /\ q.name = r.name /\ q.album_id = r.album_id /\ q.rank = r.rank
      /\ q.release_date = r.release_date /\ q.album_type = r.album_type
      /\ r.artists \subseteq q.artists

SongsKept ==
  \A r \in songs :
    \E q \in songs' :
      /\ q.name = r.name /\ q.release_date = r.release_date /\ q.rank = r.rank
      /\ q.popularity = r.popularity /\ q.album = r.album
      /\ r.artists \subseteq q.artists

\* C25: no workflow call deletes a Genre, Artist, Album or Song row, removes a member
\* of a genres or artists set, or changes a scalar field of a stored row
C25_MonotoneStore ==
  [][genres \subseteq genres' /\ ArtistsKept /\ AlbumsKept /\ SongsKept]_vars

\* a call has reached a stored Album again with other fields (the conflict branch of
\* get_or_create_album) while an Artist with genres is stored
C25_Witness ==
  /\ last.exc = "ValidationError: not a valid UUID"
  /\ albums # {}
  /\ \E r \in artists : r.genres # {}

(***************************************************************************)
(* Overlapping calls.                                                      *)
(***************************************************************************)
BothDone == \A p \in Requests : calls[p].pc = "done"

RowsOfName(name) == {r \in artists : IExact(r.name, name)}

\* C26: two overlapping search_artist calls for the same name, interleaved in any
\* way between the probe, the catalog query and the accesses of get-or-create, end
\* with exactly one Artist row of that name, and neither call ends in an exception
C26_RaceTolerated ==
  BothDone =>
    /\ \A p \in Requests : calls[p].exc = "none"
    /\ \A p \in Requests : Cardinality(RowsOfName(calls[p].artist)) = 1

\* both calls have ended, and the INSERT of the Artist by one of them was refused
\* because the other had made the row in between
C26_Witness ==
  /\ BothDone
  /\ \E p \in Requests : "Artist" \in calls[p].lost
  /\ \E r \in artists : r.genres # {}

(***************************************************************************)
(* The workflows that begin with the resolution of their artist.           *)
(***************************************************************************)
\* the catalog has no candidate of the name and the store no row of it
Unknown(artist) ==
  /\ FirstMatch(ClientSearchArtist(cat, artist).items, artist) = 0
  /\ {r \in artists : IExact(r.name, artist)} = {}

TopLevelCall ==
  last'.op \in {"search_all_albums_by_artist", "search_all_songs_by_artist"}

\* C27: search_all_albums_by_artist and search_all_songs_by_artist, called with an
\* artist name that has no matching catalog candidate and no local row, return
\* without an exception and leave the store as it was
C27_SoftNotFound ==
  [][TopLevelCall /\ Unknown(last'.a1) => last'.exc = "none" /\ tables' = tables]_vars

\* what such a call does: it leaves the store as it was and ends in DoesNotExist
C27_Raises ==
  [][TopLevelCall /\ Unknown(last'.a1) => last'.exc = "DoesNotExist" /\ tables' = tables]_vars

(***************************************************************************)
(* The track listings of search_all_songs_by_artist.                       *)
(***************************************************************************)
\* a.albums.all() as the album loop of the call takes it: the Albums of the Artist
\* after the discography part of the call
TrackAlbums(s1, artist) ==
  IF Ok(s1) /\ ArtistsIExact(s1, artist) # {}
  THEN AlbumsOf(s1, First(ArtistsIExact(s1, artist)))
  ELSE {}

EmptyListing(o) == ClientAlbumTracks(cat, o.album_id) = [err |-> FALSE, items |-> <<>>]

TracksFetched(st, o) ==
  \E k \in 1..Len(st.log) : st.log[k] = Ev("call", "album_tracks", o.album_id)

\* the call that ended in st fetched the track listing of every Album of als, if
\* the listing of one of them is empty
EmptySkipped(st, als) ==
  (Ok(st) /\ \E o \in als : EmptyListing(o)) => \A o \in als : TracksFetched(st, o)

\* C28: in search_all_songs_by_artist, when the track listing of one of the artist's
\* albums is empty, the track listings of the artist's other albums are still fetched
C28_EmptyListingSkipped ==
  [][last'.op = "search_all_songs_by_artist" =>
       \E low \in BOOLEAN, rev \in BOOLEAN :
         \E r \in {search_all_songs_by_artist(Begin(low, rev), cat, last'.a1)} :
           /\ Tables(r) = tables'
           /\ r.exc = last'.exc
           /\ EmptySkipped(r, TrackAlbums(search_all_albums_by_artist(Begin(low, rev), cat,
                                                                      last'.a1), last'.a1))]_vars

(***************************************************************************)
(* A resolver whose own catalog search fails or finds nothing.             *)
(***************************************************************************)
\* a name no catalog knows
NoName == "q"

NoAnswer(resp) == resp.err \/ resp.items = <<>>

\* the call that ended in st returned and left the store as it is
NoOp(st) == Ok(st) /\ Tables(st) = tables

\* C29: when the catalog search of search_artist, of search_artist_and_album or of
\* search_artist_and_song raises or returns no items, the call returns without an
\* exception and every table and relationship set is as it was
C29_ResolverFailureNoOp ==
  /\ \A artist \in ArtistNames \cup {NoName} :
       NoAnswer(ClientSearchArtist(cat, artist))
         => NoOp(search_artist(Begin(FALSE, FALSE), cat, artist))
  /\ \A artist \in TrackArtists, album_name \in {"x", "X", "y", NoName} :
       NoAnswer(ClientSearchAlbum(cat, artist, album_name))
         => NoOp(search_artist_and_album(Begin(FALSE, FALSE), cat, artist, album_name))
  /\ \A artist \in TrackArtists, track_name \in TrackNames \cup {NoName} :
       NoAnswer(ClientSearchTrack(cat, artist, track_name))
         => NoOp(search_artist_and_song(Begin(FALSE, FALSE), cat, artist, track_name))

\* a track resolution whose own search raised has returned, on a store that
\* holds Artists and Albums
C29_Witness ==
  /\ last.op = "search_artist_and_song"
  /\ last.exc = "none"
  /\ "track" \in sel.down
  /\ artists # {} /\ albums # {}

(***************************************************************************)
(* Termination.                                                            *)
(***************************************************************************)
\* the kinds of call, from the innermost resolver to the outermost workflow
Level(fn) ==
  CASE fn = "search_artist" -> 1
    [] fn = "search_artist_and_album" -> 2
    [] fn = "search_artist_and_song" -> 3
    [] fn = "search_all_albums_by_artist" -> 4
    [] OTHER -> 5

\* every call in progress is of a lower kind than each of its callers
Descends ==
  \A i \in 1..Len(calls), j \in 1..Len(calls) :
    i < j => Level(calls[i].fn) < Level(calls[j].fn)

\* C30: every workflow call finishes, by returning or by raising, and a nested call
\* is never of the kind of one of its callers or of a kind above it
C30_Termination == []Descends /\ ((calls # <<>>) ~> (calls = <<>>))

\* a full-catalog call has finished after its track resolutions nested down to the
\* artist resolver and stored Songs
C30_Witness ==
  /\ calls = <<>>
  /\ last.op = "search_all_songs_by_artist"
  /\ last.exc = "none"
  /\ songs # {}

============================================================================
